---- MODULE Spec2Model ----
(***************************************************************************)
(* Field Days statistics tracker (src/program.py): the Player registry,    *)
(* the roster resolver, score parsing of Game and Day, the aggregation     *)
(* pass parse_days, the season passes of main and the record formatter.    *)
(***************************************************************************)
EXTENDS Integers, Sequences, FiniteSets, TLC

VARIABLES
    players,   \* the global list `players` (program.py:69), a sequence of Player
    log,       \* the rows of the "Days" sheet, in sheet order
    days,      \* the list of Day objects read_excel returned for the current pass
    season,    \* the season of the current pass of main; NoSeason in the first pass
    pc,        \* position of main: "read" ("read_new_day" when main was started
               \* with --new-day), "new_day", "rows", "parse", "active",
               \* "update", "done", or "failed" once an exception reached main
    idx,       \* number of days of `days` that parse_days has processed
    pre,       \* the registry before the last step (history)
    err,       \* the exception that ended the run and the call that raised it
    active,    \* the list get_active_players returned in the current season pass
    sheets,    \* the records written to the Stats sheets, by sheet name
    teamsheet, \* the rows written to the Teams sheet
    written,   \* the names whose row the last update_excel call set
    last       \* the last step or helper call and its outcome (history)

vars ==
    <<players, log, days, season, pc, idx, pre, err, active, sheets, teamsheet,
      written, last>>

NoErr == "none"
NoSeason == 0

----------------------------------------------------------------------------
(* Configuration: CONFIG and player_names.                                 *)

\* CONFIG["GAME_TYPES"]: display name -> key of Player.stats
GAME_TYPES ==
    [g \in {"PK's", "Cross", "A/D", "P&F", "SS", "FK's", "Days", "Games"} |->
        CASE g = "PK's"  -> "pk"
          [] g = "Cross" -> "cross"
          [] g = "A/D"   -> "ad"
          [] g = "P&F"   -> "pf"
          [] g = "SS"    -> "ss"
          [] g = "FK's"  -> "fk"
          [] g = "Days"  -> "days"
          [] g = "Games" -> "games"]

StatKeys == {GAME_TYPES[g] : g \in DOMAIN GAME_TYPES}

SubGameKeys == <<"pk", "cross", "ad", "pf", "ss", "fk">>

\* CONFIG["SEASONS_RANGE"] = range(2023, 2026)
SEASONS_RANGE == <<2023, 2024, 2025>>

player_names ==
    <<"Aaron", "AB", "Anthony", "Brandon", "Chris", "Eric", "Jacob", "Kiernan",
      "Quinn", "Sam G", "Sam S", "Tighe">>

KnownNames == {player_names[i] : i \in 1..Len(player_names)}

----------------------------------------------------------------------------
(* Sequence helpers.                                                       *)

Range(s) == {s[i] : i \in 1..Len(s)}

RECURSIVE SumSeq(_)
SumSeq(s) == IF s = <<>> THEN 0 ELSE Head(s) + SumSeq(Tail(s))

\* number of positions of s holding x
Count(s, x) == Cardinality({i \in 1..Len(s) : s[i] = x})

\* all sequences over S of length lo..hi
SeqsOf(S, lo, hi) == UNION {[1..n -> S] : n \in lo..hi}

----------------------------------------------------------------------------
(* Player and GameStats.                                                   *)

GameStats == [wins |-> 0, losses |-> 0]

\* Player(name) with __post_init__: every stat zero, teammates keyed by the
\* names of player_names only
Player(name) ==
    [name      |-> name,
     stats     |-> [k \in StatKeys |-> GameStats],
     mvp       |-> 0,
     clown     |-> 0,
     teammates |-> [n \in KnownNames |-> 0]]

games_w(p) == SumSeq([i \in 1..Len(SubGameKeys) |-> p.stats[SubGameKeys[i]].wins])

games_l(p) == SumSeq([i \in 1..Len(SubGameKeys) |-> p.stats[SubGameKeys[i]].losses])

\* players = [Player(name) for name in player_names]  (read_excel)
SeedPlayers == [i \in 1..Len(player_names) |-> Player(player_names[i])]

----------------------------------------------------------------------------
(* Score strings and the construction of Game and Day.  A string is a      *)
(* sequence of one-character strings; NotAString stands for a cell that is *)
(* no str at all (an empty or numeric cell).                               *)

NotAString == <<"NaN">>

Digits == {"0", "1", "2", "3", "4", "5", "6", "7", "8", "9"}

DigitVal(c) ==
    CASE c = "0" -> 0 [] c = "1" -> 1 [] c = "2" -> 2 [] c = "3" -> 3 [] c = "4" -> 4
      [] c = "5" -> 5 [] c = "6" -> 6 [] c = "7" -> 7 [] c = "8" -> 8 [] c = "9" -> 9

\* str.split(sep): the parts between the occurrences of sep
RECURSIVE SplitAcc(_, _, _)
SplitAcc(s, sep, cur) ==
    IF s = <<>> THEN <<cur>>
    ELSE IF Head(s) = sep THEN <<cur>> \o SplitAcc(Tail(s), sep, <<>>)
    ELSE SplitAcc(Tail(s), sep, Append(cur, Head(s)))

Split(s, sep) == SplitAcc(s, sep, <<>>)

\* the str of a sequence of characters
RECURSIVE Concat(_)
Concat(s) == IF s = <<>> THEN "" ELSE Head(s) \o Concat(Tail(s))

\* the characters int() skips around the number of an ASCII text: blank,
\* tab, newline, form feed, carriage return and (written as itself) the
\* vertical tab
PyWhitespace == {" ", "\t", "\n", "\f", "\r", ""}

\* the ASCII characters str.strip() removes: those, and the separators
\* 0x1c-0x1f (written as themselves)
StrWhitespace == PyWhitespace \cup {"", "", "", ""}

\* the characters of ws removed from the ends of s
RECURSIVE LStrip(_, _)
LStrip(s, ws) == IF s # <<>> /\ Head(s) \in ws THEN LStrip(Tail(s), ws) ELSE s

RECURSIVE RStrip(_, _)
RStrip(s, ws) ==
    IF s # <<>> /\ s[Len(s)] \in ws THEN RStrip(SubSeq(s, 1, Len(s) - 1), ws) ELSE s

Strip(s, ws) == RStrip(LStrip(s, ws), ws)

RECURSIVE DecVal(_)
DecVal(s) == IF s = <<>> THEN 0 ELSE 10 * DecVal(SubSeq(s, 1, Len(s) - 1)) + DigitVal(s[Len(s)])

\* underscores of an int literal stand singly between two digits
GroupedDigits(body) ==
    /\ body # <<>>
    /\ Range(body) \subseteq Digits \cup {"_"}
    /\ body[1] # "_"
    /\ body[Len(body)] # "_"
    /\ \A i \in 1..(Len(body) - 1) : ~(body[i] = "_" /\ body[i + 1] = "_")

\* the sign-free part of an int literal: decimal digits, grouped by underscores
PyIntBody(sgn, body) ==
    IF ~GroupedDigits(body)
    THEN [ok |-> FALSE, val |-> 0]
    ELSE [ok  |-> TRUE,
          val |-> IF sgn = "-" THEN 0 - DecVal(SelectSeq(body, LAMBDA c : c # "_"))
                  ELSE DecVal(SelectSeq(body, LAMBDA c : c # "_"))]

PyIntStripped(t) ==
    IF t # <<>> /\ Head(t) \in {"+", "-"} THEN PyIntBody(Head(t), Tail(t))
    ELSE PyIntBody("", t)

\* int(text): whitespace around, an optional sign, then decimal digits;
\* anything else raises ValueError
PyInt(text) == PyIntStripped(Strip(text, PyWhitespace))

\* raise ValueError(f"Invalid score format: ...")
BadScore == [ok |-> FALSE, err |-> "ValueError", team1_score |-> 0, team2_score |-> 0]

\* a part that is no int reads as 0
ScorePairCoerced(a, b) ==
    [ok |-> TRUE, err |-> NoErr,
     team1_score |-> IF a.ok /\ a.val >= 0 THEN a.val ELSE 0,
     team2_score |-> IF b.ok /\ b.val >= 0 THEN b.val ELSE 0]

\* the two ints of a score: either int() raising, or a negative value, is a
\* ValueError
ScorePair(a, b) ==
    IF ~a.ok \/ ~b.ok THEN BadScore
    ELSE IF a.val < 0 \/ b.val < 0 THEN BadScore
    ELSE [ok |-> TRUE, err |-> NoErr, team1_score |-> a.val, team2_score |-> b.val]

\* team1_score, team2_score = map(int, parts): exactly two parts unpack
ScoreOfParts(parts) ==
    IF Len(parts) # 2 THEN BadScore ELSE ScorePair(PyInt(parts[1]), PyInt(parts[2]))

\* the body of Game.__post_init__ and Day.__post_init__:
\*   team1_score, team2_score = map(int, score.split("-")); negative -> ValueError
\* A score that is no str has no split: AttributeError, which is not caught.
ParseScore(score) ==
    IF score = NotAString
    THEN [ok |-> FALSE, err |-> "AttributeError", team1_score |-> 0, team2_score |-> 0]
    ELSE ScoreOfParts(Split(score, "-"))

GameObject(name, r) ==
    [ok |-> r.ok, err |-> r.err,
     obj |-> [name |-> name, team1_score |-> r.team1_score,
              team2_score |-> r.team2_score]]

\* Game(name, score)
Game(name, score) == GameObject(name, ParseScore(score))

DayObject(team1, team2, games, r) ==
    [ok |-> r.ok, err |-> r.err,
     obj |-> [team1 |-> team1, team2 |-> team2, games |-> games,
              team1_score |-> r.team1_score, team2_score |-> r.team2_score]]

\* Day(team1, team2, score, games)
Day(team1, team2, score, games) == DayObject(team1, team2, games, ParseScore(score))

----------------------------------------------------------------------------
(* Helper functions.  A call returns the registry it leaves behind and the *)
(* exception it raised (NoErr when it returned); a Player object is the    *)
(* position of its record in `players`.                                    *)

Ok(ps) == [ps |-> ps, err |-> NoErr]

Raise(ps, e) == [ps |-> ps, err |-> e]

\* statement sequencing: F runs on the registry r left, unless r raised
Then(r, F(_)) == IF r.err # NoErr THEN r ELSE F(r.ps)

\* next((p for p in players if p.name == name), None)
Find(ps, name) ==
    IF \E i \in 1..Len(ps) : ps[i].name = name
    THEN CHOOSE i \in 1..Len(ps) :
            ps[i].name = name /\ \A j \in 1..(i - 1) : ps[j].name # name
    ELSE 0

GetPlayerAlwaysAppend(ps, name) ==
    IF name = "" THEN [ps |-> ps, err |-> "ValueError", ref |-> 0]
    ELSE [ps |-> Append(ps, Player(name)), err |-> NoErr, ref |-> Len(ps) + 1]

\* get_player(name)
get_player(ps, name) ==
    IF name = "" THEN [ps |-> ps, err |-> "ValueError", ref |-> 0]
    ELSE IF Find(ps, name) # 0 THEN [ps |-> ps, err |-> NoErr, ref |-> Find(ps, name)]
    ELSE [ps |-> Append(ps, Player(name)), err |-> NoErr, ref |-> Len(ps) + 1]

\* [get_player(name.strip()) for name in player_names]: the names are held
\* stripped; the comprehension stops at the first name that raises
RECURSIVE ResolveAll(_, _, _)
ResolveNext(r, names, team) ==
    IF r.err # NoErr THEN [ps |-> r.ps, err |-> r.err, team |-> <<>>]
    ELSE ResolveAll(r.ps, Tail(names), Append(team, r.ref))

ResolveAll(ps, names, team) ==
    IF names = <<>> THEN [ps |-> ps, err |-> NoErr, team |-> team]
    ELSE ResolveNext(get_player(ps, Head(names)), names, team)

\* init_team(player_names)
init_team(ps, names) ==
    IF names = <<>> THEN [ps |-> ps, err |-> "ValueError", team |-> <<>>]
    ELSE ResolveAll(ps, names, <<>>)

\* only the first player of the team is credited
BumpWinsFirstOnly(ps, key, team, amt) ==
    IF team = <<>> THEN ps ELSE [ps EXCEPT ![Head(team)].stats[key].wins = @ + amt]

\* for player in team: player.stats[game_type].wins += amt
RECURSIVE BumpWins(_, _, _, _)
BumpWins(ps, key, team, amt) ==
    IF team = <<>> THEN ps
    ELSE BumpWins([ps EXCEPT ![Head(team)].stats[key].wins = @ + amt], key, Tail(team), amt)

RECURSIVE BumpLosses(_, _, _, _)
BumpLosses(ps, key, team, amt) ==
    IF team = <<>> THEN ps
    ELSE BumpLosses([ps EXCEPT ![Head(team)].stats[key].losses = @ + amt], key, Tail(team), amt)

\* for player in team: player.stats[game_type].wins = amt
RECURSIVE SetWins(_, _, _, _)
SetWins(ps, key, team, amt) ==
    IF team = <<>> THEN ps
    ELSE SetWins([ps EXCEPT ![Head(team)].stats[key].wins = amt], key, Tail(team), amt)

\* a win counted as one unit, whatever the score
AddWinUnit(ps, game, team, amt) ==
    IF game \notin DOMAIN GAME_TYPES THEN Raise(ps, "ValueError")
    ELSE IF amt < 0 THEN Raise(ps, "ValueError")
    ELSE Ok(BumpWins(ps, GAME_TYPES[game], team, 1))

\* the latest amount replaces the count
AddWinOverwrites(ps, game, team, amt) ==
    IF game \notin DOMAIN GAME_TYPES THEN Raise(ps, "ValueError")
    ELSE IF amt < 0 THEN Raise(ps, "ValueError")
    ELSE Ok(SetWins(ps, GAME_TYPES[game], team, amt))

\* add_win as in Field_Days.py: no check of the amount, an unknown game is
\* printed and skipped
AddWinUnchecked(ps, game, team, amt) ==
    IF game \notin DOMAIN GAME_TYPES THEN Ok(ps)
    ELSE Ok(BumpWins(ps, GAME_TYPES[game], team, amt))

\* add_win(game, team, amt)
add_win(ps, game, team, amt) ==
    IF game \notin DOMAIN GAME_TYPES THEN Raise(ps, "ValueError")
    ELSE IF amt < 0 THEN Raise(ps, "ValueError")
    ELSE Ok(BumpWins(ps, GAME_TYPES[game], team, amt))

\* a loss counted as one unit, whatever the score
AddLossUnit(ps, game, team, amt) ==
    IF game \notin DOMAIN GAME_TYPES THEN Raise(ps, "ValueError")
    ELSE IF amt < 0 THEN Raise(ps, "ValueError")
    ELSE Ok(BumpLosses(ps, GAME_TYPES[game], team, 1))

\* add_loss(game, team, amt)
add_loss(ps, game, team, amt) ==
    IF game \notin DOMAIN GAME_TYPES THEN Raise(ps, "ValueError")
    ELSE IF amt < 0 THEN Raise(ps, "ValueError")
    ELSE Ok(BumpLosses(ps, GAME_TYPES[game], team, amt))

\* remove_player(rem_player, player_list): compares names, not objects
remove_player(ps, rem, list) == SelectSeq(list, LAMBDA q : ps[q].name # ps[rem].name)

\* for other_player in others: player.teammates[other_player.name] += 1
\* The dict holds the names of player_names only: any other name is a KeyError,
\* raised after the increments already made.
RECURSIVE BumpTeammates(_, _, _)
BumpTeammates(ps, p, others) ==
    IF others = <<>> THEN Ok(ps)
    ELSE LET n == ps[Head(others)].name
         IN  IF n \notin DOMAIN ps[p].teammates THEN Raise(ps, "KeyError")
             ELSE BumpTeammates([ps EXCEPT ![p].teammates[n] = @ + 1], p, Tail(others))

RECURSIVE TeamLoop(_, _, _)
TeamLoop(ps, team, i) ==
    IF i > Len(team) THEN Ok(ps)
    ELSE Then(BumpTeammates(ps, team[i], remove_player(ps, team[i], team)),
              LAMBDA q : TeamLoop(q, team, i + 1))

\* a loop that credits only the players listed after the current one
RECURSIVE TeamLoopLaterOnly(_, _, _)
TeamLoopLaterOnly(ps, team, i) ==
    IF i > Len(team) THEN Ok(ps)
    ELSE Then(BumpTeammates(ps, team[i],
                  remove_player(ps, team[i], SubSeq(team, i + 1, Len(team)))),
              LAMBDA q : TeamLoopLaterOnly(q, team, i + 1))

UpdateTeamListsLaterOnly(ps, team) ==
    IF team = <<>> THEN Raise(ps, "ValueError") ELSE TeamLoopLaterOnly(ps, team, 1)

\* update_team_lists(team)
update_team_lists(ps, team) ==
    IF team = <<>> THEN Raise(ps, "ValueError") ELSE TeamLoop(ps, team, 1)

----------------------------------------------------------------------------
(* parse_days: the aggregation of one Day.                                 *)

\* a tie going to team 1
OutcomeTieToTeam1(team1, team2, s1, s2) ==
    IF s1 >= s2
    THEN [win |-> team1, lose |-> team2, wscore |-> s1, lscore |-> s2]
    ELSE [win |-> team2, lose |-> team1, wscore |-> s2, lscore |-> s1]

\* the if/else of parse_days: team 1 wins on a strictly greater score, team 2
\* otherwise
Outcome(team1, team2, s1, s2) ==
    IF s1 > s2
    THEN [win |-> team1, lose |-> team2, wscore |-> s1, lscore |-> s2]
    ELSE [win |-> team2, lose |-> team1, wscore |-> s2, lscore |-> s1]

\* the four add_win / add_loss calls that credit one result to category `game`
Credit(ps, game, o) ==
    LET r1 == add_win(ps, game, o.win, o.wscore)
        r2 == Then(r1, LAMBDA q : add_loss(q, game, o.win, o.lscore))
        r3 == Then(r2, LAMBDA q : add_win(q, game, o.lose, o.lscore))
    IN  Then(r3, LAMBDA q : add_loss(q, game, o.lose, o.wscore))

\* for game in day.games: ...
RECURSIVE GamesLoop(_, _, _)
GamesLoop(ps, day, games) ==
    IF games = <<>> THEN Ok(ps)
    ELSE LET g == Head(games)
             o == Outcome(day.team1, day.team2, g.team1_score, g.team2_score)
         IN  Then(Credit(ps, g.name, o), LAMBDA q : GamesLoop(q, day, Tail(games)))

\* the day-level part of one iteration of parse_days (lines 569-583)
DayLevel(ps, day) ==
    LET o  == Outcome(day.team1, day.team2, day.team1_score, day.team2_score)
        r1 == update_team_lists(ps, day.team1)
        r2 == Then(r1, LAMBDA q : update_team_lists(q, day.team2))
        r3 == Then(r2, LAMBDA q : add_win(q, "Days", o.win, 1))
        r4 == Then(r3, LAMBDA q : add_loss(q, "Days", o.lose, 1))
        r5 == Then(r4, LAMBDA q : add_win(q, "Games", o.win, o.wscore))
        r6 == Then(r5, LAMBDA q : add_loss(q, "Games", o.win, o.lscore))
        r7 == Then(r6, LAMBDA q : add_win(q, "Games", o.lose, o.lscore))
    IN  Then(r7, LAMBDA q : add_loss(q, "Games", o.lose, o.wscore))

\* one iteration of the loop of parse_days
parse_day(ps, day) ==
    Then(DayLevel(ps, day), LAMBDA q : GamesLoop(q, day, day.games))

\* parse_days(days_list), from the first day on; stops at the first exception
RECURSIVE parse_days(_, _)
parse_days(ps, days_list) ==
    IF days_list = <<>> THEN Ok(ps)
    ELSE Then(parse_day(ps, Head(days_list)), LAMBDA q : parse_days(q, Tail(days_list)))

----------------------------------------------------------------------------
(* read_excel: the rows of the Days sheet become Day objects.  A row is    *)
(*   [date, team1, team2, score, games, mvp, clown]                        *)
(* team1 and team2 hold the names of the cell, already split at ", " and   *)
(* stripped; games holds the non-empty Game cells as [name, score]; mvp    *)
(* and clown are <<>> for an empty cell and <<name>> for a string.         *)

\* the year of row['Date']: [kind |-> "timestamp" | "iso" | "us" | "bad", y |-> n]
\*   Timestamp: .year;  "Y-..": int(first part);  "../Y": last part, two-digit
\*   years are 2000 + Y;  anything else raises and the row is skipped
YearOf(date) ==
    CASE date.kind = "timestamp" -> [ok |-> TRUE, year |-> date.y]
      [] date.kind = "iso"       -> [ok |-> TRUE, year |-> date.y]
      [] date.kind = "us"        ->
            [ok |-> TRUE, year |-> IF date.y > 1000 THEN date.y ELSE 2000 + date.y]
      [] OTHER                   -> [ok |-> FALSE, year |-> 0]

AwardTo(r, field) ==
    IF r.err # NoErr THEN Raise(r.ps, r.err)
    ELSE IF field = "mvp" THEN Ok([r.ps EXCEPT ![r.ref].mvp = @ + 1])
    ELSE Ok([r.ps EXCEPT ![r.ref].clown = @ + 1])

\* if isinstance(row['MVP'], str): get_player(row['MVP']).mvp += 1
Award(ps, cell, field) ==
    IF cell = <<>> THEN Ok(ps) ELSE AwardTo(get_player(ps, cell[1]), field)

\* games.append(Game(game_name, game_score)) for every Game cell
RECURSIVE MakeGames(_, _, _)
AppendGame(ps, g, cells, acc) ==
    IF ~g.ok THEN [ps |-> ps, err |-> g.err, games |-> acc]
    ELSE MakeGames(ps, Tail(cells), Append(acc, g.obj))

\* game_score[1:-1]: the text without its first and its last character
Inner(text) == SubSeq(text, 2, Len(text) - 1)

\* game_name, game_score = game_data.split(" "): a Game cell is the text of
\* the cell; a text that is no str has no split (AttributeError), and one that
\* does not fall into exactly two parts at its blanks cannot be unpacked
\* (ValueError)
MakeGames(ps, cells, acc) ==
    IF cells = <<>> THEN [ps |-> ps, err |-> NoErr, games |-> acc]
    ELSE IF Head(cells) = NotAString
    THEN [ps |-> ps, err |-> "AttributeError", games |-> acc]
    ELSE IF Len(Split(Head(cells), " ")) # 2
    THEN [ps |-> ps, err |-> "ValueError", games |-> acc]
    ELSE AppendGame(ps, Game(Concat(Split(Head(cells), " ")[1]),
                             Inner(Split(Head(cells), " ")[2])), cells, acc)

\* the next statement of the row loop: G runs on what r returned, unless r
\* raised; the registry stays as the raising call left it
Bind(r, ds, G(_)) ==
    IF r.err # NoErr THEN [ps |-> r.ps, days |-> ds, err |-> r.err] ELSE G(r)

\* days.append(Day(team1, team2, score, games))
AppendDay(ps, ds, d) ==
    IF ~d.ok THEN [ps |-> ps, days |-> ds, err |-> d.err]
    ELSE [ps |-> ps, days |-> Append(ds, d.obj), err |-> NoErr]

ReadGamesAndDay(ps, ds, row, team1, team2) ==
    Bind(MakeGames(ps, row.games, <<>>), ds,
         LAMBDA gs : AppendDay(ps, ds, Day(team1, team2, row.score, gs.games)))

ReadAwards(ps, ds, row, team1, team2) ==
    Bind(Then(Award(ps, row.mvp, "mvp"), LAMBDA q : Award(q, row.clown, "clown")),
         ds, LAMBDA c : ReadGamesAndDay(c.ps, ds, row, team1, team2))

ReadTeam2(ps, ds, row, team1) ==
    Bind(init_team(ps, row.team2), ds,
         LAMBDA t2 : ReadAwards(t2.ps, ds, row, team1, t2.team))

\* the body of the row loop of read_excel for a row of the wanted season
ReadRow(ps, ds, row) ==
    Bind(init_team(ps, row.team1), ds,
         LAMBDA t1 : ReadTeam2(t1.ps, ds, row, t1.team))

\* not season or (season and year_full == int(season))
Wanted(ssn, year) == ssn = NoSeason \/ year = ssn

\* a row whose date cannot be read taken in the full-history pass
TakenUnreadableInFull(y, ssn) == (~y.ok /\ ssn = NoSeason) \/ (y.ok /\ Wanted(ssn, y.year))

\* the season filter takes the row
Taken(y, ssn) == y.ok /\ Wanted(ssn, y.year)

RECURSIVE RowLoop(_, _, _, _)
RowLoop(ps, ds, rows, ssn) ==
    IF rows = <<>> THEN [ps |-> ps, days |-> ds, err |-> NoErr]
    ELSE IF ~Taken(YearOf(Head(rows).date), ssn) THEN RowLoop(ps, ds, Tail(rows), ssn)
    ELSE Bind(ReadRow(ps, ds, Head(rows)), ds,
              LAMBDA r : RowLoop(r.ps, r.days, Tail(rows), ssn))

\* the registry read_excel starts from, whatever `players` held before
KeepPlayers(old) == old

\* global players; players = [Player(name) for name in player_names]
ResetPlayers(old) == SeedPlayers

\* read_excel(filename, season), new_day=False
read_excel(old, rows, ssn) == RowLoop(ResetPlayers(old), <<>>, rows, ssn)

----------------------------------------------------------------------------
(* The new-day prompt.  Every prompt asks again until the entry passes its *)
(* test, so what get_new_day_input works on is the accepted entries:       *)
(*   [date, team1, team2, score, games, mvp, clown, confirm]               *)
(* date, team1, team2 and score are the texts typed (sequences of          *)
(* characters), games the texts typed before the empty entry that ends     *)
(* the list, mvp and clown <<>> or <<name>>.                               *)

\* validate_score(score_str): two ints around one "-", none negative
validate_score(text) == ScoreOfParts(Split(text, "-")).ok

\* month, day, year = map(int, nd_date.split("/"));
\* 1 <= month <= 12 and 1 <= day <= 31 and 0 <= year <= 9999
ValidDate(text) ==
    LET parts == Split(Strip(text, StrWhitespace), "/")
    IN  /\ Len(parts) = 3
        /\ \A k \in 1..3 : PyInt(parts[k]).ok
        /\ PyInt(parts[1]).val \in 1..12
        /\ PyInt(parts[2]).val \in 1..31
        /\ PyInt(parts[3]).val \in 0..9999

\* [p.strip() for p in nd_team.split(",")]
TeamPlayers(text) ==
    LET parts == Split(Strip(text, StrWhitespace), ",")
    IN  [k \in 1..Len(parts) |-> Concat(Strip(parts[k], StrWhitespace))]

\* all(p in player_names for p in team_players)
ValidTeam(text) == \A k \in 1..Len(TeamPlayers(text)) : TeamPlayers(text)[k] \in KnownNames

\* f"{game_type} ({score})"
GameCell(game_type, score) == game_type \o <<" ", "(">> \o score \o <<")">>

\* game_type, score = nd_game.split(" ", 1): the text before the first blank
\* and the text after it
GameTyped(text) ==
    [game_type |-> Split(Strip(text, StrWhitespace), " ")[1],
     score |-> SubSeq(Strip(text, StrWhitespace),
                      Len(Split(Strip(text, StrWhitespace), " ")[1]) + 2,
                      Len(Strip(text, StrWhitespace)))]

\* the typed game holds a blank, the game type is a key of GAME_TYPES, the
\* score stands between "(" and ")" and passes validate_score
ValidGame(text) ==
    IF " " \notin Range(Strip(text, StrWhitespace)) THEN FALSE
    ELSE IF Concat(GameTyped(text).game_type) \notin DOMAIN GAME_TYPES THEN FALSE
    ELSE IF GameTyped(text).score = <<>> THEN FALSE
    ELSE IF Head(GameTyped(text).score) # "("
            \/ GameTyped(text).score[Len(GameTyped(text).score)] # ")" THEN FALSE
    ELSE validate_score(Inner(GameTyped(text).score))

\* an award is skipped or names a player of
\* all_players = set(team1_players + team2_players)
ValidAward(cell, answer) ==
    IF cell = <<>> THEN TRUE
    ELSE cell[1] \in Range(TeamPlayers(answer.team1)) \cup Range(TeamPlayers(answer.team2))

\* the entries with which every loop of get_new_day_input ends
NewDayAccepted(answer) ==
    /\ ValidDate(answer.date)
    /\ ValidTeam(answer.team1)
    /\ ValidTeam(answer.team2)
    /\ validate_score(Strip(answer.score, StrWhitespace))
    /\ \A k \in 1..Len(answer.games) : ValidGame(answer.games[k])
    /\ ValidAward(answer.mvp, answer)
    /\ ValidAward(answer.clown, answer)

\* cell.split(", "): the parts between the occurrences of a comma and a blank
RECURSIVE SplitCommaBlank(_, _)
SplitCommaBlank(s, cur) ==
    IF s = <<>> THEN <<cur>>
    ELSE IF Len(s) >= 2 /\ s[1] = "," /\ s[2] = " "
    THEN <<cur>> \o SplitCommaBlank(SubSeq(s, 3, Len(s)), <<>>)
    ELSE SplitCommaBlank(Tail(s), Append(cur, Head(s)))

\* what the row loop makes of the team cell, which is the text as typed:
\* row['Team 1'].split(", "), each part stripped by init_team; names typed
\* around a bare comma stay one name
TeamCell(text) ==
    LET parts == SplitCommaBlank(Strip(text, StrWhitespace), <<>>)
    IN  [k \in 1..Len(parts) |-> Concat(Strip(parts[k], StrWhitespace))]

\* nd_row: the date, team and score cells as typed, the game cells
\* "type (score)", the awards.  The row loop reads the date text year-first
\* when it holds a "-", else its last part as the year
NewDayRow(answer) ==
    LET date == Strip(answer.date, StrWhitespace)
        iso  == PyInt(Split(date, "-")[1])
        us   == PyInt(Split(date, "/")[Len(Split(date, "/"))])
    IN  [date |-> IF "-" \in Range(date)
                  THEN IF iso.ok THEN [kind |-> "iso", y |-> iso.val]
                       ELSE [kind |-> "bad", y |-> 0]
                  ELSE IF us.ok THEN [kind |-> "us", y |-> us.val]
                  ELSE [kind |-> "bad", y |-> 0],
         team1 |-> TeamCell(answer.team1), team2 |-> TeamCell(answer.team2),
         score |-> Strip(answer.score, StrWhitespace),
         games |-> [k \in 1..Len(answer.games) |->
                       GameCell(GameTyped(answer.games[k]).game_type,
                                Inner(GameTyped(answer.games[k]).score))],
         mvp |-> answer.mvp, clown |-> answer.clown]

\* get_new_day_input(): the row, or ValueError("New day entry cancelled by user")
get_new_day_input(answer) ==
    IF answer.confirm THEN [err |-> NoErr, cancelled |-> FALSE, row |-> NewDayRow(answer)]
    ELSE [err |-> "ValueError", cancelled |-> TRUE, row |-> <<>>]

\* the Game columns of the Days sheet: nd_row is filled up to them
GameColumns == 7

\* days_df.loc[len(days_df)] = nd_row and the write of the Days sheet; a row
\* longer than the sheet is wide raises ValueError, which is raised again; the
\* cancellation is printed and dropped
AddNewDay(rows, nd) ==
    IF nd.cancelled THEN [rows |-> rows, err |-> NoErr]
    ELSE IF Len(nd.row.games) > GameColumns THEN [rows |-> rows, err |-> "ValueError"]
    ELSE [rows |-> Append(rows, nd.row), err |-> NoErr]

\* if new_day and not season: ... (lines 503-513)
NewDayStep(rows, ssn, new_day, answer) ==
    IF new_day /\ ssn = NoSeason THEN AddNewDay(rows, get_new_day_input(answer))
    ELSE [rows |-> rows, err |-> NoErr]

----------------------------------------------------------------------------
(* The record formatter and the output step.  A table is a function from   *)
(* row position (0-based, as the DataFrame index) to a row, a row a        *)
(* function from column name to cell value.                                *)

\* table.at[pos, col] = v: creates the row or the column when it is missing
SetCell(table, pos, col, v) ==
    LET old == IF pos \in DOMAIN table THEN table[pos] ELSE <<>>
        new == [c \in (DOMAIN old) \cup {col} |-> IF c = col THEN v ELSE old[c]]
    IN  [q \in (DOMAIN table) \cup {pos} |-> IF q = pos THEN new ELSE table[q]]

\* 10 ** n
RECURSIVE Pow10(_)
Pow10(n) == IF n = 0 THEN 1 ELSE 10 * Pow10(n - 1)

\* n / d is a float: the double nearest to the quotient, with a mantissa of
\* 53 bits (ties to the even mantissa).  The quotient is scaled into [1, 2),
\* a * 2**i / b, and divided bit by bit.
RECURSIVE ScaleUp(_, _)
ScaleUp(a, b) == IF a < b THEN ScaleUp(2 * a, b) ELSE a

RECURSIVE ScaleDown(_, _)
ScaleDown(a, b) == IF a >= 2 * b THEN ScaleDown(a, 2 * b) ELSE b

\* the remainder r and the last bit of the mantissa after `steps` more bits
RECURSIVE MantissaRest(_, _, _, _)
MantissaRest(r, b, bit, steps) ==
    IF steps = 0 THEN [r |-> r, bit |-> bit]
    ELSE MantissaRest((2 * r) % b, b, IF 2 * r >= b THEN 1 ELSE 0, steps - 1)

\* the side of the float n / d relative to the rational n / d, n >= 0, d > 0:
\* the rounded mantissa lies above (1), below (-1) or on (0) the quotient
FloatSide(n, d) ==
    IF n = 0 THEN 0
    ELSE LET a == ScaleUp(n, d)
             b == ScaleDown(a, d)
             m == MantissaRest(a - b, b, 1, 52)
         IN  IF m.r = 0 THEN 0
             ELSE IF 2 * m.r > b THEN 1
             ELSE IF 2 * m.r < b THEN 0 - 1
             ELSE IF m.bit = 1 THEN 1 ELSE 0 - 1

\* round(n / d, digits) for n >= 0, d > 0, in units of 10 ** -digits: the
\* float n / d is rounded by its exact binary value, so it differs from the
\* rounding of the rational only where the rational is a decimal tie between
\* q and q + 1: there the float decides, and a float that is the tie itself
\* goes to the even neighbour
PyRound(n, d, digits) ==
    LET num == n * Pow10(digits)
        q   == num \div d
        r   == num % d
    IN  IF 2 * r < d THEN q
        ELSE IF 2 * r > d THEN q + 1
        ELSE IF FloatSide(n, d) > 0 THEN q + 1
        ELSE IF FloatSide(n, d) < 0 THEN q
        ELSE IF q % 2 = 0 THEN q ELSE q + 1

\* n / d rounded, or ZeroDivisionError
PyDivRound(n, d, digits) ==
    IF d = 0 THEN [err |-> "ZeroDivisionError", val |-> 0]
    ELSE [err |-> NoErr, val |-> PyRound(n, d, digits)]

\* f"{wins}-{losses}"
RecordString(wins, losses) == ToString(wins) \o "-" \o ToString(losses)

\* table.at[player_num, pct] = <the value, once computed>
SetPct(table, player_num, pct, dv, divided) ==
    IF dv.err # NoErr THEN [table |-> table, err |-> dv.err, divided |-> divided]
    ELSE [table |-> SetCell(table, player_num, pct, dv.val),
          err |-> NoErr, divided |-> divided]

\* the percentage without the guard for a 0-0 record
WinPctUnguarded(table, player_num, wins, losses, pct) ==
    SetPct(table, player_num, pct, PyDivRound(wins, wins + losses, 4), TRUE)

\* 0 if wins == 0 and losses == 0 else round(wins / (wins + losses), 4);
\* `divided` tells whether the division was evaluated
WinPct(table, player_num, wins, losses, pct) ==
    IF wins = 0 /\ losses = 0
    THEN SetPct(table, player_num, pct, [err |-> NoErr, val |-> 0], FALSE)
    ELSE SetPct(table, player_num, pct, PyDivRound(wins, wins + losses, 4), TRUE)

\* update_stat(table, player_num, wins, losses, record, pct)
update_stat(table, player_num, wins, losses, record, pct) ==
    IF wins < 0 \/ losses < 0
    THEN [table |-> table, err |-> "ValueError", divided |-> FALSE]
    ELSE WinPct(SetCell(table, player_num, record, RecordString(wins, losses)),
                player_num, wins, losses, pct)

\* the names the model uses, in the order of name.lower(): the sort key of
\* get_active_players and update_excel
LowerOrder == <<"Aaron", "Aaron,AB">> \o Tail(player_names) \o <<"Yan", "Zed">>

Rank(name) == CHOOSE i \in 1..Len(LowerOrder) : LowerOrder[i] = name

\* sorted(list, key=lambda p: p.name.lower()): a stable insertion sort
RECURSIVE InsertByName(_, _, _)
InsertByName(ps, sorted, ref) ==
    IF sorted = <<>> THEN <<ref>>
    ELSE IF Rank(ps[ref].name) < Rank(ps[Head(sorted)].name) THEN <<ref>> \o sorted
    ELSE <<Head(sorted)>> \o InsertByName(ps, Tail(sorted), ref)

RECURSIVE SortByName(_, _)
SortByName(ps, list) ==
    IF list = <<>> THEN <<>>
    ELSE InsertByName(ps, SortByName(ps, SubSeq(list, 1, Len(list) - 1)), list[Len(list)])

\* the names on day.team1 + day.team2 of every day
ActiveNames(ps, days_list) ==
    UNION {{ps[q].name : q \in Range(d.team1 \o d.team2)} : d \in Range(days_list)}

\* [get_player(name) for name in active_names]: active_names is a set, and
\* the order in which it is iterated follows the hash seed of the run.  Every
\* active name is the name of a player of a day, so get_player finds the
\* player and leaves the registry as it is, whatever the order: what the
\* comprehension holds, as a set
ActiveRefs(ps, names) == {get_player(ps, n).ref : n \in names}

\* sorted([...], key=lambda p: p.name.lower()) over every order of the
\* iteration: the players by ascending key; the sort is stable, so that
\* players of one key come in the order of the iteration, which is any order
RECURSIVE SortedLists(_, _)
SortedLists(ps, refs) ==
    IF refs = {} THEN {<<>>}
    ELSE UNION {{<<m>> \o rest : rest \in SortedLists(ps, refs \ {m})} :
                m \in {x \in refs :
                          \A o \in refs : Rank(ps[x].name) <= Rank(ps[o].name)}}

\* get_active_players(days_list): the results the iteration orders give
get_active_players(ps, days_list) ==
    {[ps |-> ps, err |-> NoErr, list |-> l] :
        l \in SortedLists(ps, ActiveRefs(ps, ActiveNames(ps, days_list)))}

----------------------------------------------------------------------------
(* update_excel.                                                           *)

\* the order of the lists wins, losses, record_text and pct_txt
StatColumns == <<"Days", "Games", "PK's", "Cross", "A/D", "P&F", "SS", "FK's">>

\* active_players=None
NoActive == <<0>>

\* str(season) + ' Stats', or 'Stats' in the full-history pass
SheetName(ssn) == IF ssn = NoSeason THEN "Stats" ELSE ToString(ssn) \o " Stats"

\* for i in range(len(wins)): update_stat(stats, pos, wins[i], losses[i], ...)
RECURSIVE StatLoop(_, _, _, _)
StatNext(r, pos, p, i) ==
    IF r.err # NoErr THEN [table |-> r.table, err |-> r.err]
    ELSE StatLoop(r.table, pos, p, i + 1)

StatLoop(table, pos, p, i) ==
    IF i > Len(StatColumns) THEN [table |-> table, err |-> NoErr]
    ELSE StatNext(update_stat(table, pos, p.stats[GAME_TYPES[StatColumns[i]]].wins,
                              p.stats[GAME_TYPES[StatColumns[i]]].losses,
                              StatColumns[i] \o " Record", StatColumns[i] \o " Pct"),
                  pos, p, i)

\* for teammate in player.teammates.items():
\*     teams.at[pos, teammate[0]] = round(teammate[1] / (days_wins + days_losses), 3)
RECURSIVE TeammateLoop(_, _, _, _)
TeammateNext(teams, dv, pos, p, i) ==
    IF dv.err # NoErr THEN [table |-> teams, err |-> dv.err]
    ELSE TeammateLoop(SetCell(teams, pos, player_names[i], dv.val), pos, p, i + 1)

TeammateLoop(teams, pos, p, i) ==
    IF i > Len(player_names) THEN [table |-> teams, err |-> NoErr]
    ELSE TeammateNext(teams,
                      PyDivRound(p.teammates[player_names[i]],
                                 p.stats["days"].wins + p.stats["days"].losses, 3),
                      pos, p, i)

\* sorted_players.index(player): dataclass equality compares the field name
IndexOf(ps, list, ref) ==
    (CHOOSE i \in 1..Len(list) :
        ps[list[i]].name = ps[ref].name
        /\ \A j \in 1..(i - 1) : ps[list[j]].name # ps[ref].name) - 1

\* if season and days_wins == 0 and days_losses == 0: continue
Skipped(p, ssn) ==
    ssn # NoSeason /\ p.stats["days"].wins = 0 /\ p.stats["days"].losses = 0

\* the teammate rows are written in the full-history pass only
WriteTeammates(stats, tm) == [stats |-> stats, teams |-> tm.table, err |-> tm.err]

\* the cells after the records: MVP, Clown, (Name), then the Teams row
WriteRest(r, teams, pos, p, ssn) ==
    IF r.err # NoErr THEN [stats |-> r.table, teams |-> teams, err |-> r.err]
    ELSE WriteTeammates(
            SetCell(SetCell(SetCell(r.table, pos, "MVP", p.mvp), pos, "Clown", p.clown),
                    pos, "(Name)", p.name),
            IF ssn = NoSeason THEN TeammateLoop(teams, pos, p, 1)
            ELSE [table |-> teams, err |-> NoErr])

WriteAt(stats, teams, pos, p, ssn) ==
    WriteRest(StatLoop(SetCell(stats, pos, "Name", p.name), pos, p, 1), teams, pos, p, ssn)

\* the body of the player loop for a player that is not skipped
WritePlayer(ps, stats, teams, list, ref, ssn) ==
    WriteAt(stats, teams, IndexOf(ps, list, ref), ps[ref], ssn)

RECURSIVE PlayerLoop(_, _, _, _, _, _, _)
PlayerNext(r, ps, list, k, ssn, acc) ==
    IF r.err # NoErr
    THEN [stats |-> r.stats, teams |-> r.teams, err |-> r.err, written |-> acc]
    ELSE PlayerLoop(ps, r.stats, r.teams, list, k + 1, ssn, acc \cup {ps[list[k]].name})

\* for player in sorted_players: ...
PlayerLoop(ps, stats, teams, list, k, ssn, acc) ==
    IF k > Len(list)
    THEN [stats |-> stats, teams |-> teams, err |-> NoErr, written |-> acc]
    ELSE IF Skipped(ps[list[k]], ssn)
    THEN PlayerLoop(ps, stats, teams, list, k + 1, ssn, acc)
    ELSE PlayerNext(WritePlayer(ps, stats, teams, list, list[k], ssn),
                    ps, list, k, ssn, acc)

\* with pd.ExcelWriter(...): the tables go to the sheets of the pass; nothing
\* is written when the loop raised
SaveSheets(r, shs, tsh, ssn) ==
    IF r.err # NoErr
    THEN [sheets |-> shs, teamsheet |-> tsh, err |-> r.err, written |-> r.written]
    ELSE [sheets    |-> [n \in (DOMAIN shs) \cup {SheetName(ssn)} |->
                            IF n = SheetName(ssn) THEN r.stats ELSE shs[n]],
          teamsheet |-> IF ssn = NoSeason THEN r.teams ELSE tsh,
          err       |-> NoErr,
          written   |-> r.written]

\* active_players if it is not None, else sorted(players, key=...)
SortedPlayers(ps, act) ==
    IF act # NoActive THEN act ELSE SortByName(ps, [i \in 1..Len(ps) |-> i])

\* update_excel(filename, season, active_players): the Stats and Teams sheets
\* are read, the rows of the listed players are set in the tables read, and
\* the tables are written to the sheets of the pass
update_excel(ps, shs, tsh, ssn, act) ==
    SaveSheets(PlayerLoop(ps, shs["Stats"], tsh, SortedPlayers(ps, act), 1, ssn, {}),
               shs, tsh, ssn)

----------------------------------------------------------------------------
(* The Days sheets the model runs main on.                                 *)

MaxDays == 2

Row(date, team1, team2, score, games, mvp, clown) ==
    [date |-> date, team1 |-> team1, team2 |-> team2, score |-> score,
     games |-> games, mvp |-> mvp, clown |-> clown]

\* the score string "a-b" of two one-digit numbers
Sc(a, b) == <<ToString(a), "-", ToString(b)>>

\* the game names written in the Game cells of the model
GameNames ==
    [pk |-> <<"P", "K", "'", "s">>, cross |-> <<"C", "r", "o", "s", "s">>,
     days |-> <<"D", "a", "y", "s">>, games |-> <<"G", "a", "m", "e", "s">>,
     bogus |-> <<"B", "o", "g", "u", "s">>,
     big |-> <<"B", "i", "g", " ", "G", "a", "m", "e">>]

D23 == [kind |-> "timestamp", y |-> 2023]
D24 == [kind |-> "us", y |-> 24]
D22 == [kind |-> "iso", y |-> 2022]
DBad == [kind |-> "bad", y |-> 0]

FirstSix == SubSeq(player_names, 1, 6)
LastSix == SubSeq(player_names, 7, 12)

\* days on which every known player appears
FullRows ==
    {Row(d, FirstSix, LastSix, sc, gs, <<"Aaron">>, <<>>) :
        d \in {D23, D24},
        sc \in {Sc(2, 1), Sc(1, 1)},
        gs \in {<<>>, <<GameCell(GameNames.pk, Sc(1, 2))>>}}

\* one small day, varied one field at a time
SmallRow == Row(D24, <<"Aaron", "AB">>, <<"Anthony">>, Sc(0, 3), <<>>, <<>>, <<>>)

SmallRows ==
    {[SmallRow EXCEPT !.date = d] : d \in {D23, D24, D22, DBad}}
    \cup {[SmallRow EXCEPT !.team1 = t[1], !.team2 = t[2]] :
            t \in {<<<<"Zed">>, <<"Aaron">>>>,
                   <<<<"AB", "Aaron", "Zed">>, <<"Anthony">>>>,
                   <<<<"Aaron", "Aaron">>, <<"Aaron", "AB">>>>}}
    \cup {[SmallRow EXCEPT !.score = sc] : sc \in {<<"3", "-", "x">>}}
    \cup {[SmallRow EXCEPT !.date = DBad, !.mvp = <<"AB">>, !.clown = <<"Aaron">>]}
    \cup {[SmallRow EXCEPT !.games = <<GameCell(GameNames.pk, <<"3", "-", "x">>)>>]}
    \cup {[SmallRow EXCEPT !.games = gs, !.date = D23] :
            gs \in {<<GameCell(GameNames.cross, Sc(2, 0))>>,
                    <<GameCell(GameNames.bogus, Sc(1, 0))>>,
                    <<GameCell(GameNames.big, Sc(2, 1))>>}}
    \cup {[SmallRow EXCEPT !.mvp = m[1], !.clown = m[2], !.date = D23,
                           !.team1 = <<"Zed">>] :
            m \in {<<<<"Zed">>, <<"Aaron">>>>, <<<<"Yan">>, <<>>>>}}

RowPool == FullRows \cup SmallRows

Logs == SeqsOf(RowPool, 0, MaxDays)

\* the entries of the new-day prompt the model draws
Entry == [date |-> <<"5", "/", "1", "/", "2", "4">>,
          team1 |-> <<"A", "a", "r", "o", "n", ",", " ", "A", "B">>,
          team2 |-> <<"A", "n", "t", "h", "o", "n", "y">>,
          score |-> <<" ", "3", "-", "0">>, games |-> <<>>,
          mvp |-> <<>>, clown |-> <<>>, confirm |-> TRUE]

NewDayAnswers ==
    {Entry,
     [Entry EXCEPT !.confirm = FALSE],
     [Entry EXCEPT !.team1 = <<"A", "a", "r", "o", "n", ",", "A", "B">>],
     [Entry EXCEPT !.date = <<"5", "/", "1", "/", "-", "0">>],
     [Entry EXCEPT !.date = <<"5", "/", "1", "/", "2", "0", "2", "3">>,
                   !.mvp = <<"AB">>,
                   !.games = <<GameCell(GameNames.days, Sc(2, 1))>>],
     [Entry EXCEPT !.games = <<GameCell(GameNames.pk, <<"1", "-", " ", "0">>)>>],
     [Entry EXCEPT !.games = <<<<" ">> \o GameCell(GameNames.pk, Sc(1, 0)) \o <<"\t">>>>],
     [Entry EXCEPT !.games = <<GameCell(GameNames.big, Sc(2, 1))>>],
     [Entry EXCEPT !.games = <<GameNames.pk \o <<" ">> \o Sc(1, 0)>>],
     [Entry EXCEPT !.games = [k \in 1..(GameColumns + 1) |->
                                 GameCell(GameNames.pk, Sc(1, 0))]],
     [Entry EXCEPT !.team2 = <<"Z", "e", "d">>],
     [Entry EXCEPT !.score = <<"3", "-", "x">>]}

----------------------------------------------------------------------------
(* main: the full-history pass, then one pass per season.                  *)

NoCall == [op |-> "none"]

NoFailure == [exc |-> NoErr, in |-> "none"]

Init ==
    /\ players = <<>>
    /\ \/ pc = "read" /\ log \in Logs
       \/ pc = "read_new_day" /\ log \in SeqsOf(RowPool, 0, MaxDays - 1)
    /\ days = <<>>
    /\ season = NoSeason
    /\ idx = 0
    /\ pre = <<>>
    /\ err = NoFailure
    /\ active = NoActive
    /\ sheets = [n \in {"Stats"} |-> <<>>]
    /\ teamsheet = <<>>
    /\ written = {}
    /\ last = NoCall

\* where main goes after parse_days
AfterParse(ssn) == IF ssn = NoSeason THEN "update" ELSE "active"

\* for season in CONFIG["SEASONS_RANGE"]: the season after ssn, NoSeason at the end
NextSeason(ssn) ==
    IF ssn = NoSeason THEN SEASONS_RANGE[1]
    ELSE IF \E j \in 1..(Len(SEASONS_RANGE) - 1) : SEASONS_RANGE[j] = ssn
    THEN SEASONS_RANGE[(CHOOSE j \in 1..(Len(SEASONS_RANGE) - 1) : SEASONS_RANGE[j] = ssn) + 1]
    ELSE NoSeason

\* the call returned, or raised into main's except: print the error, return 1
Continue(e, call, nextpc) ==
    IF e # NoErr THEN pc' = "failed" /\ err' = [exc |-> e, in |-> call]
    ELSE pc' = nextpc /\ err' = err

\* read_excel, line 499: the registry is rebuilt from player_names
ResetRegistry ==
    /\ pc \in {"read", "read_new_day"}
    /\ pre' = players
    /\ players' = ResetPlayers(players)
    /\ days' = <<>>
    /\ pc' = IF pc = "read_new_day" THEN "new_day" ELSE "rows"
    /\ last' = NoCall
    /\ UNCHANGED <<log, season, idx, err, active, sheets, teamsheet, written>>

\* read_excel(filename, new_day=True), lines 503-513: the prompt, the new row
\* of the Days sheet and its write
GetNewDay ==
    /\ pc = "new_day"
    /\ \E answer \in NewDayAnswers :
          /\ NewDayAccepted(answer)
          /\ log' = NewDayStep(log, season, TRUE, answer).rows
          /\ Continue(NewDayStep(log, season, TRUE, answer).err, "read_excel", "rows")
    /\ last' = NoCall
    /\ UNCHANGED <<players, days, season, idx, pre, active, sheets, teamsheet, written>>

ReadRowsDone(r) ==
    /\ players' = r.ps
    /\ days' = r.days
    /\ Continue(r.err, "read_excel", IF r.days = <<>> THEN AfterParse(season) ELSE "parse")

\* read_excel, the row loop and the return
ReadRows ==
    /\ pc = "rows"
    /\ ReadRowsDone(RowLoop(players, <<>>, log, season))
    /\ pre' = players
    /\ idx' = 0
    /\ last' = NoCall
    /\ UNCHANGED <<log, season, active, sheets, teamsheet, written>>

ParseDayDone(r) ==
    /\ players' = r.ps
    /\ Continue(r.err, "parse_days",
                IF idx + 1 = Len(days) THEN AfterParse(season) ELSE "parse")

\* parse_days: one iteration of the loop over days_list
ParseDay ==
    /\ pc = "parse"
    /\ idx < Len(days)
    /\ ParseDayDone(parse_day(players, days[idx + 1]))
    /\ pre' = players
    /\ idx' = idx + 1
    /\ last' = [op |-> "parse_day"]
    /\ UNCHANGED <<log, days, season, active, sheets, teamsheet, written>>

GetActiveDone(r) ==
    /\ players' = r.ps
    /\ active' = r.list
    /\ Continue(r.err, "get_active_players", "update")

\* active_players = get_active_players(yr_days)
GetActive ==
    /\ pc = "active"
    /\ \E r \in get_active_players(players, days) : GetActiveDone(r)
    /\ pre' = players
    /\ last' = NoCall
    /\ UNCHANGED <<log, days, season, idx, sheets, teamsheet, written>>

UpdateExcelDone(r) ==
    /\ sheets' = r.sheets
    /\ teamsheet' = r.teamsheet
    /\ written' = r.written
    /\ IF r.err = NoErr /\ NextSeason(season) # NoSeason
       THEN /\ pc' = "read"
            /\ err' = err
            /\ season' = NextSeason(season)
            /\ active' = NoActive
       ELSE /\ Continue(r.err, "update_excel", "done")
            /\ UNCHANGED <<season, active>>

\* update_excel(filename) or update_excel(filename, season, active_players),
\* then the next season of the loop of main
UpdateExcel ==
    /\ pc = "update"
    /\ UpdateExcelDone(update_excel(players, sheets, teamsheet, season, active))
    /\ pre' = players
    /\ last' = NoCall
    /\ UNCHANGED <<players, log, days, idx>>

Next == ResetRegistry \/ GetNewDay \/ ReadRows \/ ParseDay \/ GetActive \/ UpdateExcel

Spec == Init /\ [][Next]_vars

----------------------------------------------------------------------------
(* parse_days on the one-day (MaxParse-day) sheets over every pairing of   *)
(* DayRosters: read_excel without a season, then the aggregation.          *)

MaxParse == 1

DayRosters ==
    {<<"Anthony">>, <<"Aaron", "AB">>, <<"Aaron", "Aaron", "AB">>,
     <<"Aaron", "AB", "Anthony">>, <<"Zed">>}

DayScores == {Sc(2, 1), Sc(0, 3), Sc(1, 1)}

DayGames ==
    {<<>>, <<GameCell(GameNames.pk, Sc(0, 2))>>,
     <<GameCell(GameNames.days, Sc(2, 1))>>,
     <<GameCell(GameNames.games, Sc(2, 1))>>}

DayRows ==
    {Row(D23, t1, t2, sc, gs, <<>>, <<>>) :
        t1 \in DayRosters, t2 \in DayRosters, sc \in DayScores, gs \in DayGames}

InitDays ==
    /\ players = SeedPlayers
    /\ log \in SeqsOf(DayRows, 1, MaxParse)
    /\ days = <<>>
    /\ season = NoSeason
    /\ pc = "rows"
    /\ idx = 0
    /\ pre = <<>>
    /\ err = NoFailure
    /\ active = NoActive
    /\ sheets = [n \in {"Stats"} |-> <<>>]
    /\ teamsheet = <<>>
    /\ written = {}
    /\ last = NoCall

NextDays == ReadRows \/ ParseDay

SpecDays == InitDays /\ [][NextDays]_vars

----------------------------------------------------------------------------
(* Game(...), Day(...) and update_stat(...) called on their own, on every   *)
(* score text of up to MaxLen characters and every pair of counts up to    *)
(* MaxCount or equal to TieCount.                                          *)

MaxLen == 5

MaxCount == 3

ScoreChars == {"0", "3", "-", "x", "+", " ", "\t", "_"}

ScoreTexts == SeqsOf(ScoreChars, 0, MaxLen) \cup {NotAString}

\* a count that makes wins / (wins + losses) a decimal tie at four digits
\* (1 / 160 = 0.00625)
TieCount == 159

Counts == (0 - 1)..MaxCount \cup {TieCount}

InitCalls ==
    /\ players = SeedPlayers
    /\ log = <<>>
    /\ days = <<>>
    /\ season = NoSeason
    /\ pc = "call"
    /\ idx = 0
    /\ pre = <<>>
    /\ err = NoFailure
    /\ active = NoActive
    /\ sheets = [n \in {"Stats"} |-> <<>>]
    /\ teamsheet = <<>>
    /\ written = {}
    /\ \/ \E sc \in ScoreTexts : last = [op |-> "score", score |-> sc]
       \/ \E w \in Counts, l \in Counts : last = [op |-> "counts", wins |-> w, losses |-> l]

Called(op, arg, res) ==
    /\ pc' = "called"
    /\ last' = [op |-> op, arg |-> arg, res |-> res]
    /\ UNCHANGED <<players, log, days, season, idx, pre, err, active, sheets,
                   teamsheet, written>>

\* Game("PK's", score)
NewGame ==
    /\ pc = "call"
    /\ last.op = "score"
    /\ Called("Game", last.score, Game("PK's", last.score))

\* Day([Aaron], [AB], score, [])
NewDay ==
    /\ pc = "call"
    /\ last.op = "score"
    /\ Called("Day", last.score, Day(<<1>>, <<2>>, last.score, <<>>))

\* update_stat(stats, 0, wins, losses, 'Days Record', 'Days Pct') on an empty
\* table
UpdateStat ==
    /\ pc = "call"
    /\ last.op = "counts"
    /\ Called("update_stat", <<last.wins, last.losses>>,
              update_stat(<<>>, 0, last.wins, last.losses, "Days Record", "Days Pct"))

NextCalls == NewGame \/ NewDay \/ UpdateStat

SpecCalls == InitCalls /\ [][NextCalls]_vars

----------------------------------------------------------------------------
(* The helper functions called in any order, MaxCalls times, on the empty  *)
(* registry of the module and on the seeded one of read_excel.             *)

MaxCalls == 2

HelperNames == {"", "Aaron", "Zed"}

HelperGames == {"PK's", "Bogus"}

HelperAmounts == {0 - 1, 2}

\* the teams of the first players of the registry
HelperTeams(ps) == {t \in {<<1>>, <<1, 2>>} : \A i \in 1..Len(t) : t[i] <= Len(ps)}

InitHelpers ==
    /\ players \in {<<>>, SeedPlayers}
    /\ log = <<>>
    /\ days = <<>>
    /\ season = NoSeason
    /\ pc = "helpers"
    /\ idx = 0
    /\ pre = <<>>
    /\ err = NoFailure
    /\ active = NoActive
    /\ sheets = [n \in {"Stats"} |-> <<>>]
    /\ teamsheet = <<>>
    /\ written = {}
    /\ last = NoCall

HelperCalled(call, r) ==
    /\ players' = r.ps
    /\ pre' = players
    /\ idx' = idx + 1
    /\ last' = [call EXCEPT !.err = r.err]
    /\ UNCHANGED <<log, days, season, pc, err, active, sheets, teamsheet, written>>

ResolvedCalled(call, r, res) ==
    /\ players' = r.ps
    /\ pre' = players
    /\ idx' = idx + 1
    /\ last' = [call EXCEPT !.err = r.err, !.res = res]
    /\ UNCHANGED <<log, days, season, pc, err, active, sheets, teamsheet, written>>

GetPlayerCalled(name, r) ==
    ResolvedCalled([op |-> "get_player", name |-> name, err |-> NoErr, res |-> 0],
                   r, r.ref)

CallGetPlayer ==
    /\ pc = "helpers"
    /\ idx < MaxCalls
    /\ \E name \in HelperNames : GetPlayerCalled(name, get_player(players, name))

InitTeamCalled(names, r) ==
    ResolvedCalled([op |-> "init_team", names |-> names, err |-> NoErr, res |-> <<>>],
                   r, r.team)

CallInitTeam ==
    /\ pc = "helpers"
    /\ idx < MaxCalls
    /\ \E names \in SeqsOf(HelperNames, 0, 2) :
          InitTeamCalled(names, init_team(players, names))

CallAddWin ==
    /\ pc = "helpers"
    /\ idx < MaxCalls
    /\ \E game \in HelperGames, team \in HelperTeams(players), amt \in HelperAmounts :
          HelperCalled([op |-> "add_win", game |-> game, team |-> team, amt |-> amt,
                        err |-> NoErr],
                       add_win(players, game, team, amt))

CallAddLoss ==
    /\ pc = "helpers"
    /\ idx < MaxCalls
    /\ \E game \in HelperGames, team \in HelperTeams(players), amt \in HelperAmounts :
          HelperCalled([op |-> "add_loss", game |-> game, team |-> team, amt |-> amt,
                        err |-> NoErr],
                       add_loss(players, game, team, amt))

NextHelpers == CallGetPlayer \/ CallInitTeam \/ CallAddWin \/ CallAddLoss

SpecHelpers == InitHelpers /\ [][NextHelpers]_vars

----------------------------------------------------------------------------
(* Score texts: two non-negative integers separated by one "-".            *)

Blank(t) == \A k \in 1..Len(t) : t[k] \in {" ", "\t", "\n", "\f", "\r"}

\* a non-negative integer as text: digits, grouped by single underscores if at
\* all, after an optional "+", with blanks, tabs and line ends allowed around
Unsigned(core) ==
    /\ core # <<>>
    /\ core[1] \in Digits
    /\ core[Len(core)] \in Digits
    /\ \A k \in 1..Len(core) : core[k] \in Digits \cup {"_"}
    /\ \A k \in 1..(Len(core) - 1) : core[k] = "_" => core[k + 1] # "_"

Numeral(t) ==
    \E a, b \in 0..Len(t) :
        /\ a + b < Len(t)
        /\ Blank(SubSeq(t, 1, a))
        /\ Blank(SubSeq(t, Len(t) - b + 1, Len(t)))
        /\ \/ Unsigned(SubSeq(t, a + 1, Len(t) - b))
           \/ t[a + 1] = "+" /\ Unsigned(SubSeq(t, a + 2, Len(t) - b))

\* the positions of the separator in a score text
Dashes(sc) == {k \in 1..Len(sc) : sc[k] = "-"}

\* two non-negative integers separated by one "-"
TwoNumerals(sc) ==
    /\ sc # NotAString
    /\ \E k \in 1..Len(sc) :
          /\ Dashes(sc) = {k}
          /\ Numeral(SubSeq(sc, 1, k - 1))
          /\ Numeral(SubSeq(sc, k + 1, Len(sc)))

----------------------------------------------------------------------------
(* Properties of one day of parse_days (SpecDays).                         *)

\* the last step was an iteration of parse_days that ran to its end
DayParsed == last.op = "parse_day" /\ err = NoFailure

\* the Day that iteration worked on
TheDay == days[idx]

TheOutcome ==
    Outcome(TheDay.team1, TheDay.team2, TheDay.team1_score, TheDay.team2_score)

\* what the iteration added to a counter of the player at position i
WinsAdded(i, key) == players[i].stats[key].wins - pre[i].stats[key].wins

LossesAdded(i, key) == players[i].stats[key].losses - pre[i].stats[key].losses

TotalWinsAdded(key) == SumSeq([i \in 1..Len(players) |-> WinsAdded(i, key)])

TotalLossesAdded(key) == SumSeq([i \in 1..Len(players) |-> LossesAdded(i, key)])

\* C1: between the days of parse_days, for every two players A and B the count
\* A.teammates[B.name] equals B.teammates[A.name].
C1_TeammatesSymmetric ==
    err = NoFailure =>
        \A i, j \in 1..Len(players) :
            (/\ players[j].name \in DOMAIN players[i].teammates
             /\ players[i].name \in DOMAIN players[j].teammates)
            => players[i].teammates[players[j].name]
                 = players[j].teammates[players[i].name]

\* a day has been aggregated whose first roster held three different known
\* players, two of them credited with each other once
C1_Witness ==
    /\ DayParsed
    /\ Len(TheDay.team1) = 3
    /\ \E i, j \in Range(TheDay.team1) :
          /\ i # j
          /\ players[i].name \in KnownNames
          /\ players[j].name \in KnownNames
          /\ players[i].teammates[players[j].name] = 1
          /\ players[j].teammates[players[i].name] = 1

\* C2: a day gives one Days win to each player of the winning roster and to
\* nobody else, one Days loss to each player of the losing roster and to nobody
\* else, and to no player both a Days win and a Days loss.
C2_DaysWinOrLossOnly ==
    (DayParsed /\ \A n \in 1..Len(TheDay.games) : TheDay.games[n].name # "Days") =>
        /\ TotalWinsAdded("days") = Len(TheOutcome.win)
        /\ \A i \in 1..Len(players) :
              /\ WinsAdded(i, "days") > 0 => i \in Range(TheOutcome.win)
              /\ i \in Range(TheOutcome.lose) =>
                    WinsAdded(i, "days") = 0 /\ LossesAdded(i, "days") > 0
              /\ ~(WinsAdded(i, "days") > 0 /\ LossesAdded(i, "days") > 0)

\* C3 as stated: the Games points a day adds over both rosters are
\* team1_score + team2_score.
C3_PointsConserved ==
    DayParsed =>
        \/ TotalWinsAdded("games") = TheDay.team1_score + TheDay.team2_score
        \/ TotalWinsAdded("games") + TotalLossesAdded("games")
             = TheDay.team1_score + TheDay.team2_score

\* the points of the sub-games the day has under the category "Games", on
\* side 1 and on side 2
GamesSubGamePoints(side) ==
    SumSeq([n \in 1..Len(TheDay.games) |->
        IF TheDay.games[n].name # "Games" THEN 0
        ELSE IF side = 1 THEN TheDay.games[n].team1_score
        ELSE TheDay.games[n].team2_score])

\* C3: every roster entry is credited its side's day score as Games wins and
\* the other side's day score as Games losses, and the same again for the
\* score of every sub-game entered under the category "Games"; so a day adds
\* len(team1) * s1 + len(team2) * s2 Games wins and
\* len(team1) * s2 + len(team2) * s1 Games losses, s1 and s2 being the day
\* score of side 1 and of side 2, each plus the side's points of the "Games"
\* sub-games.
C3_PointsPerRosterEntry ==
    DayParsed =>
        /\ TotalWinsAdded("games")
             = Len(TheDay.team1) * (TheDay.team1_score + GamesSubGamePoints(1))
               + Len(TheDay.team2) * (TheDay.team2_score + GamesSubGamePoints(2))
        /\ TotalLossesAdded("games")
             = Len(TheDay.team1) * (TheDay.team2_score + GamesSubGamePoints(2))
               + Len(TheDay.team2) * (TheDay.team1_score + GamesSubGamePoints(1))

\* a 2-1 day of three players against two has been aggregated, with a
\* sub-game entered as "Games (2-1)": 16 Games wins
C3_Witness ==
    /\ DayParsed
    /\ Len(TheDay.team1) = 3
    /\ Len(TheDay.team2) = 2
    /\ TheDay.team1_score = 2
    /\ TheDay.team2_score = 1
    /\ GamesSubGamePoints(1) = 2
    /\ GamesSubGamePoints(2) = 1
    /\ TotalWinsAdded("games") = 16

\* the rosters and scores of the day by the rule of the stated outcome: the
\* strictly greater score wins, an equal score goes to side 2
Team1Won == TheDay.team1_score > TheDay.team2_score

WinningRoster == IF Team1Won THEN TheDay.team1 ELSE TheDay.team2

LosingRoster == IF Team1Won THEN TheDay.team2 ELSE TheDay.team1

WinningScore == IF Team1Won THEN TheDay.team1_score ELSE TheDay.team2_score

LosingScore == IF Team1Won THEN TheDay.team2_score ELSE TheDay.team1_score

\* the day has no sub-game entered under the category of the given name
NoSubGameNamed(names) ==
    \A n \in 1..Len(TheDay.games) : TheDay.games[n].name \notin names

\* what the sub-games of category key give the player at position i: each
\* listing on the side with the strictly greater score (side 2 on a tie) its
\* score, each listing on the other side the other score
SubGameWins(i, key) ==
    SumSeq([n \in 1..Len(TheDay.games) |->
        IF TheDay.games[n].name \notin DOMAIN GAME_TYPES
           \/ GAME_TYPES[TheDay.games[n].name] # key THEN 0
        ELSE IF TheDay.games[n].team1_score > TheDay.games[n].team2_score
        THEN Count(TheDay.team1, i) * TheDay.games[n].team1_score
             + Count(TheDay.team2, i) * TheDay.games[n].team2_score
        ELSE Count(TheDay.team2, i) * TheDay.games[n].team2_score
             + Count(TheDay.team1, i) * TheDay.games[n].team1_score])

SubGameLosses(i, key) ==
    SumSeq([n \in 1..Len(TheDay.games) |->
        IF TheDay.games[n].name \notin DOMAIN GAME_TYPES
           \/ GAME_TYPES[TheDay.games[n].name] # key THEN 0
        ELSE Count(TheDay.team1, i) * TheDay.games[n].team2_score
             + Count(TheDay.team2, i) * TheDay.games[n].team1_score])

\* the registry ps keeps, for every player, the counters of the categories
\* other than Days and Games as they were before the day
KeepsSubGameCounters(ps) ==
    \A i \in 1..Len(pre) :
        \A k \in StatKeys \ {"days", "games"} : ps[i].stats[k] = pre[i].stats[k]

\* C11: the day-level result gives every listing on the winning roster Games
\* wins += winning day score and Games losses += losing day score, every
\* listing on the losing roster the mirror image, and changes no category
\* other than Days and Games.
C11_GamesPointWeighted ==
    DayParsed =>
        /\ KeepsSubGameCounters(DayLevel(pre, TheDay).ps)
        /\ \A i \in 1..Len(players) :
              /\ NoSubGameNamed({"Games"}) =>
                    /\ WinsAdded(i, "games")
                         = Count(WinningRoster, i) * WinningScore
                           + Count(LosingRoster, i) * LosingScore
                    /\ LossesAdded(i, "games")
                         = Count(WinningRoster, i) * LosingScore
                           + Count(LosingRoster, i) * WinningScore
              /\ \A k \in StatKeys \ {"days", "games"} :
                    SubGameWins(i, k) = 0 /\ SubGameLosses(i, k) = 0 =>
                        players[i].stats[k] = pre[i].stats[k]

\* a 0-3 day of three players against one has been aggregated, with a sub-game
C11_Witness ==
    /\ DayParsed
    /\ Len(TheDay.team1) = 3
    /\ Len(TheDay.team2) = 1
    /\ Range(TheDay.team1) \cap Range(TheDay.team2) = {}
    /\ TheDay.team1_score = 0
    /\ TheDay.team2_score = 3
    /\ TheDay.games # <<>>
    /\ NoSubGameNamed({"Games"})
    /\ WinsAdded(TheDay.team2[1], "games") = 3
    /\ LossesAdded(TheDay.team1[1], "games") = 3

\* C13: the side with the strictly greater day score wins; on equal scores
\* side 2 wins, so every listing on team 2 gets one Days win and every listing
\* on team 1 one Days loss.  Sub-game scores are resolved by the same rule.
C13_TieGoesToSide2 ==
    DayParsed =>
        \A i \in 1..Len(players) :
            /\ (NoSubGameNamed({"Days"}) /\ TheDay.team1_score > TheDay.team2_score) =>
                  /\ WinsAdded(i, "days") = Count(TheDay.team1, i)
                  /\ LossesAdded(i, "days") = Count(TheDay.team2, i)
            /\ (NoSubGameNamed({"Days"}) /\ TheDay.team1_score <= TheDay.team2_score) =>
                  /\ WinsAdded(i, "days") = Count(TheDay.team2, i)
                  /\ LossesAdded(i, "days") = Count(TheDay.team1, i)
            /\ \A n \in 1..Len(SubGameKeys) :
                  /\ WinsAdded(i, SubGameKeys[n]) = SubGameWins(i, SubGameKeys[n])
                  /\ LossesAdded(i, SubGameKeys[n]) = SubGameLosses(i, SubGameKeys[n])

\* a 1-1 day of two players against one other has been aggregated
C13_Witness ==
    /\ DayParsed
    /\ TheDay.team1_score = 1
    /\ TheDay.team2_score = 1
    /\ Len(TheDay.team1) = 2
    /\ Len(TheDay.team2) = 1
    /\ Range(TheDay.team1) \cap Range(TheDay.team2) = {}
    /\ NoSubGameNamed({"Days"})
    /\ WinsAdded(TheDay.team2[1], "days") = 1
    /\ LossesAdded(TheDay.team1[1], "days") = 1
    /\ WinsAdded(TheDay.team1[1], "days") = 0

\* what the day added to the count the player at position i keeps for name
TeammateAdded(i, name) == players[i].teammates[name] - pre[i].teammates[name]

\* C14: for two different players listed on a same roster of the day, the
\* count each keeps for the other rises by exactly 1, whatever the number of
\* sub-games; the count for the own name is never raised; players who are on
\* no common roster keep their counts for each other.
C14_TeammatesOncePerPair ==
    DayParsed =>
        \A i, j \in 1..Len(players) :
            players[j].name \in DOMAIN players[i].teammates =>
                TeammateAdded(i, players[j].name)
                  = IF i = j THEN 0
                    ELSE IF {i, j} \subseteq Range(TheDay.team1)
                            \/ {i, j} \subseteq Range(TheDay.team2) THEN 1
                    ELSE 0

\* C12: a sub-game of category c gives every team-1 player c wins += g1 and
\* c losses += g2 and every team-2 player the mirror image, whoever won the
\* day; it changes no other category, and never the Days counters, which take
\* the day-level result only.
C12_SubGameOwnCategoryOnly ==
    DayParsed =>
        \A i \in 1..Len(players) :
            /\ \A n \in 1..Len(SubGameKeys) :
                  /\ WinsAdded(i, SubGameKeys[n]) = SubGameWins(i, SubGameKeys[n])
                  /\ LossesAdded(i, SubGameKeys[n]) = SubGameLosses(i, SubGameKeys[n])
            /\ WinsAdded(i, "days") = Count(WinningRoster, i)
            /\ LossesAdded(i, "days") = Count(LosingRoster, i)

\* the listings of the player at position i on the rosters of the days
\* aggregated so far
Appearances(i) ==
    SumSeq([n \in 1..idx |-> Count(days[n].team1, i) + Count(days[n].team2, i)])

DaysPlayed(i) == players[i].stats["days"].wins + players[i].stats["days"].losses

\* C20: between the days of parse_days every player's Days wins + losses is
\* the number of the player's roster appearances, and no teammate count of the
\* player exceeds it.
C20_TeammateFractionAtMostOne ==
    (err = NoFailure /\ pc \in {"parse", "active", "update"}) =>
        \A i \in 1..Len(players) :
            /\ DaysPlayed(i) = Appearances(i)
            /\ \A name \in DOMAIN players[i].teammates :
                  name # players[i].name => players[i].teammates[name] <= DaysPlayed(i)

----------------------------------------------------------------------------
(* Properties of the passes of main (Spec).                                *)

\* the rows of the Days sheet dated in season ssn
SeasonRows(rows, ssn) ==
    SelectSeq(rows, LAMBDA r : YearOf(r.date).ok /\ YearOf(r.date).year = ssn)

\* the given rows alone, read into a freshly seeded registry and aggregated
Aggregated(r) == parse_days(r.ps, r.days)

AggregatedAlone(rows) == Aggregated(RowLoop(SeedPlayers, <<>>, rows, NoSeason))

\* C4: every pass of main starts from the registry of the known names with all
\* counters zero, and the registry at the end of the pass of season S is the
\* one obtained by aggregating the days of season S alone from a freshly
\* seeded registry.
C4_SeasonPassIndependent ==
    /\ pc = "rows" => players = SeedPlayers
    /\ (season # NoSeason /\ pc \in {"active", "update", "done"}) =>
          AggregatedAlone(SeasonRows(log, season)) = Ok(players)

\* the pass of season 2024 has ended on a sheet that also holds a day of 2023,
\* which the full-history pass and the pass of 2023 have aggregated before
C4_Witness ==
    /\ season = 2024
    /\ pc = "update"
    /\ Len(days) = 1
    /\ SeasonRows(log, 2023) # <<>>
    /\ "2023 Stats" \in DOMAIN sheets
    /\ players # SeedPlayers

\* the injective maps of 1..n onto itself
Perms(n) == {f \in [1..n -> 1..n] : \A i, j \in 1..n : f[i] = f[j] => i = j}

Reordered(ds, f) == [i \in 1..Len(ds) |-> ds[f[i]]]

\* the registry parse_days of this pass started from
ParseStart == RowLoop(SeedPlayers, <<>>, log, season).ps

\* C8: parse_days run on any reordering of the days of a pass, from the same
\* registry, ends with the same counters and teammate counts; it raises on a
\* reordering exactly when it raises on the days as given.
C8_OrderIndependent ==
    /\ (last.op = "parse_day" /\ idx = Len(days) /\ err = NoFailure) =>
          \A f \in Perms(Len(days)) :
              parse_days(ParseStart, Reordered(days, f)) = Ok(players)
    /\ err.in = "parse_days" =>
          \A f \in Perms(Len(days)) :
              parse_days(ParseStart, Reordered(days, f)).err # NoErr

\* two days with different scores and a player on both have been aggregated
C8_Witness ==
    /\ last.op = "parse_day"
    /\ idx = Len(days)
    /\ err = NoFailure
    /\ Len(days) = 2
    /\ days[1].team1_score # days[2].team1_score
    /\ \E i \in Range(days[1].team1) : i \in Range(days[2].team1 \o days[2].team2)
    /\ players[1].stats["games"].wins > days[2].team1_score

\* the names on the rows of a stats table
NamesOn(table) == {table[pos]["Name"] : pos \in DOMAIN table}

\* the names on team 1 or team 2 of a row of season ssn
SeasonNames(ssn) ==
    UNION {Range(r.team1) \cup Range(r.team2) : r \in Range(SeasonRows(log, ssn))}

\* C10: the records update_excel writes for a season are those of the players
\* on team 1 or team 2 of a day of that season, and of nobody else.
C10_SeasonSheetIsActive ==
    \A i \in 1..Len(SEASONS_RANGE) :
        SheetName(SEASONS_RANGE[i]) \in DOMAIN sheets =>
            NamesOn(sheets[SheetName(SEASONS_RANGE[i])]) = SeasonNames(SEASONS_RANGE[i])

\* the rows of the sheet a pass of season ssn keeps: those with a date that
\* resolves to a year, of that year if a season is given
Kept(ssn) ==
    SelectSeq(log, LAMBDA r : YearOf(r.date).ok
                              /\ (ssn = NoSeason \/ YearOf(r.date).year = ssn))

NamesOf(team) == [q \in 1..Len(team) |-> players[team[q]].name]

\* the rows among the given ones that name the player in an award cell
Awards(rows, name, field) ==
    Cardinality({n \in 1..Len(rows) :
        IF field = "mvp" THEN rows[n].mvp = <<name>> ELSE rows[n].clown = <<name>>})

\* C15: a row whose date resolves to no year is skipped: read_excel returns
\* the Day records of the other rows in their order, and the skipped row adds
\* nothing to any counter, MVP and Clown included, in the full-history pass and
\* in every season pass.
C15_BadDateRowSkipped ==
    /\ (pc \in {"parse", "active", "update"} /\ idx = 0) =>
          /\ Len(days) = Len(Kept(season))
          /\ \A n \in 1..Len(days) :
                /\ NamesOf(days[n].team1) = Kept(season)[n].team1
                /\ NamesOf(days[n].team2) = Kept(season)[n].team2
                /\ Day(days[n].team1, days[n].team2, Kept(season)[n].score,
                       days[n].games).obj = days[n]
          /\ \A i \in 1..Len(players) :
                /\ players[i].mvp = Awards(Kept(season), players[i].name, "mvp")
                /\ players[i].clown = Awards(Kept(season), players[i].name, "clown")
    /\ (pc \in {"active", "update", "done"} /\ idx = Len(days)) =>
          AggregatedAlone(Kept(season)) = Ok(players)

\* the full-history pass has aggregated a sheet whose first row has a date
\* that cannot be read and names an MVP and a Clown
C15_Witness ==
    /\ pc = "update"
    /\ season = NoSeason
    /\ Len(log) = 2
    /\ ~YearOf(log[1].date).ok
    /\ log[1].mvp = <<"AB">>
    /\ log[1].clown = <<"Aaron">>
    /\ Len(days) = 1
    /\ idx = 1
    /\ players[2].mvp = 0
    /\ players[1].mvp = 1
    /\ players[1].clown = 0

\* a row with a day score or a sub-game score that is no "int-int"
BadScoreRow(r) ==
    \/ ~TwoNumerals(r.score)
    \/ \E m \in 1..Len(r.games) :
          ~TwoNumerals(Inner(Split(r.games[m], " ")[Len(Split(r.games[m], " "))]))

\* C16: a row with a malformed day score or sub-game score is dropped alone:
\* read_excel does not fail, the other rows are aggregated and written out.
C16_BadScoreRowIsolated ==
    (\E n \in 1..Len(log) : BadScoreRow(log[n])) =>
        /\ ~(pc = "failed" /\ err.in = "read_excel")
        /\ (pc \in {"parse", "active", "update"} /\ season = NoSeason) =>
              Len(days) = Len(SelectSeq(Kept(NoSeason), LAMBDA r : ~BadScoreRow(r)))

\* C17: a day that lists a name outside player_names is aggregated without
\* error.
C17_UnknownPlayerDayCompletes ==
    (/\ last.op = "parse_day"
     /\ \E q \in Range(days[idx].team1 \o days[idx].team2) :
            players[q].name \notin KnownNames) =>
        err = NoFailure

\* the day points of the player at position i on day d, for and against
DayPointsFor(d, i) ==
    Count(d.team1, i) * d.team1_score + Count(d.team2, i) * d.team2_score

DayPointsAgainst(d, i) ==
    Count(d.team1, i) * d.team2_score + Count(d.team2, i) * d.team1_score

\* the points of the sub-games of day d entered under category key
SubPointsFor(d, i, key) ==
    SumSeq([m \in 1..Len(d.games) |->
        IF d.games[m].name \in DOMAIN GAME_TYPES /\ GAME_TYPES[d.games[m].name] = key
        THEN Count(d.team1, i) * d.games[m].team1_score
             + Count(d.team2, i) * d.games[m].team2_score
        ELSE 0])

SubPointsAgainst(d, i, key) ==
    SumSeq([m \in 1..Len(d.games) |->
        IF d.games[m].name \in DOMAIN GAME_TYPES /\ GAME_TYPES[d.games[m].name] = key
        THEN Count(d.team1, i) * d.games[m].team2_score
             + Count(d.team2, i) * d.games[m].team1_score
        ELSE 0])

BetweenDays == err = NoFailure /\ pc \in {"parse", "active", "update"}

\* C18 as stated: every player's Games wins are the sum of the wins of the six
\* sub-game categories, and the Games losses the sum of their losses.
C18_GamesIsSumOfSubGames ==
    BetweenDays =>
        \A i \in 1..Len(players) :
            /\ players[i].stats["games"].wins = games_w(players[i])
            /\ players[i].stats["games"].losses = games_l(players[i])

\* C18: the Games counters accumulate the day-level scores (and the points of
\* sub-games entered as "Games"), games_w and games_l the points of the
\* sub-games of the six categories; the two are kept apart.
C18_GamesIsSumOfDayScores ==
    BetweenDays =>
        \A i \in 1..Len(players) :
            /\ players[i].stats["games"].wins
                 = SumSeq([n \in 1..idx |-> DayPointsFor(days[n], i)
                                            + SubPointsFor(days[n], i, "games")])
            /\ players[i].stats["games"].losses
                 = SumSeq([n \in 1..idx |-> DayPointsAgainst(days[n], i)
                                            + SubPointsAgainst(days[n], i, "games")])
            /\ games_w(players[i])
                 = SumSeq([n \in 1..idx |->
                      SumSeq([k \in 1..Len(SubGameKeys) |->
                                 SubPointsFor(days[n], i, SubGameKeys[k])])])
            /\ games_l(players[i])
                 = SumSeq([n \in 1..idx |->
                      SumSeq([k \in 1..Len(SubGameKeys) |->
                                 SubPointsAgainst(days[n], i, SubGameKeys[k])])])

\* two days have been aggregated, one with a sub-game and one without, and
\* the Games wins of the first player differ from the sub-game wins
C18_Witness ==
    /\ BetweenDays
    /\ idx = 2
    /\ days[1].games # <<>>
    /\ days[2].games = <<>>
    /\ 1 \in Range(days[1].team1) \cap Range(days[2].team1)
    /\ games_w(players[1]) > 0
    /\ players[1].stats["games"].wins > games_w(players[1])

\* C19: the full-history update_excel never divides by zero: every player of
\* the registry it normalises has Days wins + losses >= 1.
C19_NoDivisionByZero ==
    /\ err.exc # "ZeroDivisionError"
    /\ (pc = "update" /\ season = NoSeason) =>
          \A i \in 1..Len(players) :
              players[i].stats["days"].wins + players[i].stats["days"].losses >= 1

\* the season whose pass has just written its sheet
SeasonWritten ==
    IF pc = "done" THEN season
    ELSE SEASONS_RANGE[(CHOOSE j \in 1..Len(SEASONS_RANGE) : SEASONS_RANGE[j] = season) - 1]

\* The rows the loop of update_excel sets in a season pass are those of the
\* players of the season; the other rows of the sheet come from the table read.
LoopSetsActiveRows ==
    (\/ pc = "done"
     \/ pc = "read" /\ season \in Range(Tail(SEASONS_RANGE))) =>
        written = SeasonNames(SeasonWritten)

----------------------------------------------------------------------------
(* Properties of Game, Day and update_stat (SpecCalls).                    *)

\* C5: Game(...) and Day(...) raise on every score that is not two
\* non-negative integers separated by one "-", giving no object; every object
\* made has team1_score >= 0 and team2_score >= 0, and no part that is not an
\* integer is read as 0.
C5_MalformedScoreFails ==
    last.op \in {"Game", "Day"} =>
        /\ last.res.ok <=> TwoNumerals(last.arg)
        /\ ~last.res.ok <=> last.res.err \in {"ValueError", "AttributeError"}
        /\ last.res.ok =>
              /\ last.res.obj.team1_score >= 0
              /\ last.res.obj.team2_score >= 0
              /\ last.res.obj.team1_score = 0 => "0" \in Range(last.arg)

\* Game(...) has been called with "3-x" and has raised
C5_Witness ==
    /\ last.op = "Game"
    /\ last.arg = <<"3", "-", "x">>
    /\ ~last.res.ok
    /\ last.res.err = "ValueError"

\* C6: for wins, losses >= 0 update_stat writes the record "wins-losses"; for
\* 0 and 0 it writes the percentage 0 and divides nothing; the division is
\* evaluated exactly when wins + losses > 0, and its rounded result is written.
C6_RecordAndGuardedPct ==
    (last.op = "update_stat" /\ last.arg[1] >= 0 /\ last.arg[2] >= 0) =>
        /\ last.res.err = NoErr
        /\ last.res.table[0]["Days Record"]
             = ToString(last.arg[1]) \o "-" \o ToString(last.arg[2])
        /\ last.res.divided <=> last.arg[1] + last.arg[2] > 0
        /\ (last.arg[1] = 0 /\ last.arg[2] = 0) => last.res.table[0]["Days Pct"] = 0
        /\ 2 * (last.res.table[0]["Days Pct"] * (last.arg[1] + last.arg[2])
                - 10000 * last.arg[1]) <= last.arg[1] + last.arg[2]
        /\ 2 * (10000 * last.arg[1]
                - last.res.table[0]["Days Pct"] * (last.arg[1] + last.arg[2]))
             <= last.arg[1] + last.arg[2]

\* update_stat has been called with 0 wins and 0 losses
C6_Witness ==
    /\ last.op = "update_stat"
    /\ last.arg = <<0, 0>>
    /\ last.res.table[0]["Days Record"] = "0-0"
    /\ last.res.table[0]["Days Pct"] = 0

----------------------------------------------------------------------------
(* Properties of the helper functions (SpecHelpers).                       *)

Registered(ps, name) == \E i \in 1..Len(ps) : ps[i].name = name

\* the names of a list that get_player has to register, each once
NewNames(ps, names) == {n \in Range(names) : ~Registered(ps, n)}

\* C7: the registry never holds two players of one name; get_player of a
\* registered name returns that player and changes nothing; of an unregistered
\* non-empty name it appends one player with every counter zero; of the empty
\* name it raises and changes nothing; init_team resolves name by name.
C7_PlayerIdentityUnique ==
    /\ \A i, j \in 1..Len(players) : players[i].name = players[j].name => i = j
    /\ (last.op = "get_player" /\ last.name = "") =>
          last.err = "ValueError" /\ players = pre
    /\ (last.op = "get_player" /\ Registered(pre, last.name)) =>
          /\ last.err = NoErr
          /\ players = pre
          /\ players[last.res].name = last.name
    /\ (last.op = "get_player" /\ last.name # "" /\ ~Registered(pre, last.name)) =>
          /\ last.err = NoErr
          /\ players = Append(pre, Player(last.name))
          /\ last.res = Len(players)
    /\ (last.op = "init_team" /\ last.err = NoErr) =>
          /\ Len(last.res) = Len(last.names)
          /\ \A k \in 1..Len(last.names) : players[last.res[k]].name = last.names[k]
          /\ Len(players) = Len(pre) + Cardinality(NewNames(pre, last.names))
          /\ SubSeq(players, 1, Len(pre)) = pre

\* get_player has returned a registered player whose counters are not zero
C7_Witness ==
    /\ last.op = "get_player"
    /\ last.name = "Aaron"
    /\ Registered(pre, "Aaron")
    /\ players[last.res].stats["pk"].wins = 2

\* C9: add_win and add_loss called with a game that is no key of GAME_TYPES,
\* or with a negative amount, raise ValueError and leave every counter of every
\* player as it was.
C9_InvalidCallRejected ==
    (/\ last.op \in {"add_win", "add_loss"}
     /\ (last.game \notin DOMAIN GAME_TYPES \/ last.amt < 0)) =>
        last.err = "ValueError" /\ players = pre

\* add_win has been called with an unknown game on two players, one of whom
\* had wins
C9_Witness ==
    /\ last.op = "add_win"
    /\ last.game = "Bogus"
    /\ last.amt = 2
    /\ last.team = <<1, 2>>
    /\ last.err = "ValueError"
    /\ pre[1].stats["pk"].wins = 2

====
